---- MODULE Spec2Model ----
(***************************************************************************)
(* Model of backend/server.py: the generate_video request handler, the     *)
(* background job process_video_generation with the services it awaits     *)
(* (generate_video_with_fal, generate_caption_and_hashtags and the         *)
(* InstagramService singleton), and the three collections of the record    *)
(* store it writes (videos, prompts, performance).                         *)
(*                                                                         *)
(* Every `await` at which the job really waits is one step of the model:   *)
(* a job's steps interleave with the steps of the other jobs and of the    *)
(* routes at exactly these points. The mock branch of                      *)
(* create_media_container awaits nothing, so it runs in one step with the  *)
(* code up to the next wait. An awaited record-store call either takes     *)
(* effect and returns, or raises without effect.                           *)
(***************************************************************************)
EXTENDS Integers, Sequences, FiniteSets, TLC

VARIABLES
    FAL_KEY,               \* module constant FAL_KEY read from the environment
    access_token,          \* instagram_service.access_token
    business_account_id,   \* instagram_service.business_account_id
    mock_mode,             \* instagram_service.mock_mode
    videos,                \* db.videos: video id -> document
    prompts,               \* db.prompts: prompt id -> document
    performance,           \* db.performance: sequence of inserted documents
    job,                   \* background tasks: video id -> frame of process_video_generation
    last,                  \* per job, the most recent awaited operation (history)
    call                   \* the most recent direct call of a service component or
                           \* recorded request (history)

vars == <<FAL_KEY, access_token, business_account_id, mock_mode,
          videos, prompts, performance, job, last, call>>

\* ------------------------------------------------------------------ bounds

\* Number of video generation requests (and so of background jobs) considered.
MaxVideos == 1

VideoIds == 1..MaxVideos

\* The longest target length passed to the renderer in a direct call.
MaxLength == 61

\* The longest list of hashtags passed in a direct call.
MaxTags == 2

\* The video ids of two requests whose jobs run concurrently.
Pair == {1, 2}

AllIds == VideoIds \cup Pair

\* ------------------------------------------------------------------ values

\* Python None.
Null == "None"

\* The sample video substituted when rendering fails.
PlaceholderUrl == "https://storage.googleapis.com/gtv-videos-bucket/sample/ForBiggerBlazes.mp4"

\* while retry_count < max_retries
max_retries == 30

\* A hashtag is the sequence of its characters.
StartsWithHash(tag) == Len(tag) > 0 /\ tag[1] = "#"

\* A normalization that leaves every tag as it is.
NormalizeTag_keep(tag) == tag

\* tag if tag.startswith("#") else f"#{tag}"
NormalizeTag(tag) == IF StartsWithHash(tag) THEN tag ELSE <<"#">> \o tag

NormalizeTags(tags) == [i \in 1..Len(tags) |-> NormalizeTag(tags[i])]

\* The hashtags considered for a direct call: empty, a bare '#', without and
\* with '#', with two of them.
Tags == {<<>>, <<"#">>, <<"b">>, <<"#", "a">>, <<"#", "#", "a">>}

TagLists == UNION {[1..n -> Tags] : n \in 0..MaxTags}

\* $set: the update's fields replace or extend those of the document.
SetFields(doc, upd) ==
    [k \in DOMAIN doc \cup DOMAIN upd |-> IF k \in DOMAIN upd THEN upd[k] ELSE doc[k]]

\* An update whose filter matches every document of the collection.
UpdateOne_every(coll, id, upd) == [k \in DOMAIN coll |-> SetFields(coll[k], upd)]

\* update_one({"id": id}, {"$set": upd}): a missing document matches nothing.
UpdateOne(coll, id, upd) ==
    IF id \in DOMAIN coll THEN [coll EXCEPT ![id] = SetFields(@, upd)] ELSE coll

\* insert_one(doc) keyed by the document's id.
InsertOne(coll, id, doc) == coll @@ (id :> doc)

\* ------------------------------------------------------------------ inputs

\* The prompts of the caller, as stored by generate_prompt and approve_prompt.
PromptIds == {"p1"}

VideoLengths == {20, 45}

Niche == <<"f", "i", "t">>

\* The niches considered for a direct call of the caption generator.
Niches == {Niche, <<"d", " ", "y">>}

PromptDoc(len) ==
    [id |-> "p1", user_id |-> "u1", niche |-> Niche, video_length |-> len,
     status |-> "approved"]

\* ------------------------------------------------------------------ publisher

\* A constructor that asks for both credentials to be missing.
InstagramService_init_both(token, account) ==
    IF token = "" /\ account = "" THEN TRUE ELSE FALSE

\* InstagramService.__init__: mock mode iff a credential is missing.
InstagramService_init(token, account) ==
    IF token = "" \/ account = "" THEN TRUE ELSE FALSE

\* ------------------------------------------------------------------ job frames

\* A local variable that has not been assigned yet.
Unbound == [unbound |-> TRUE]

\* The frame of a job that has not been enqueued: pc is the await the job is
\* at, ig_error the exception caught by the publishing try block and exc the
\* one caught by the outer try block (each by what raised it, if any), the
\* other fields are the local variables of process_video_generation.
NoJob ==
    [pc |-> "none", prompt |-> Unbound, video_result |-> Unbound, video_url |-> Null,
     completed_at |-> Null, caption |-> <<>>, hashtags |-> <<>>,
     container_id |-> Null, retry_count |-> 0,
     publish_result |-> Unbound, ig_error |-> "none", exc |-> "none"]

NoOp == [op |-> "none", ok |-> TRUE]

\* No service component has been called directly.
NoCall == [fn |-> "none"]

\* A call that raises to its caller instead of returning.
Raises == [raises |-> TRUE]

Init ==
    /\ FAL_KEY \in {"", "fal-key"}
    /\ access_token \in {"", "token"}
    /\ business_account_id \in {"", "acct"}
    /\ mock_mode = InstagramService_init(access_token, business_account_id)
    /\ videos = <<>>
    /\ \E len \in VideoLengths : prompts = [p \in PromptIds |-> PromptDoc(len)]
    /\ performance = <<>>
    /\ job = [v \in AllIds |-> NoJob]
    /\ last = [v \in AllIds |-> NoOp]
    /\ call = NoCall

\* dict.get(key, default)
Get(d, key, default) == IF key \in DOMAIN d THEN d[key] ELSE default

\* One awaited operation of job v: its name and whether it returned (ok) or raised.
Op(name, ok) == [op |-> name, ok |-> ok]

\* A status query that returned, and whether its result had status_code FINISHED.
StatusOp(finished) == [op |-> "get_status", ok |-> TRUE, finished |-> finished]

\* ------------------------------------------------------------------ request handler

\* uuid.uuid4(): an id no video document has.
FreshVideoId(ids) ==
    CHOOSE v \in ids \ DOMAIN videos : \A w \in ids \ DOMAIN videos : v <= w

video_doc(v, prompt) ==
    [id |-> v, user_id |-> prompt.user_id, prompt_id |-> prompt.id,
     status |-> "queued", video_url |-> Null,
     duration |-> Get(prompt, "video_length", 30),
     resolution |-> "1080x1920", created_at |-> "t_created", completed_at |-> Null]

\* POST /videos/generate for a prompt of the caller: insert the queued video,
\* mark the prompt generating, enqueue the background job with the prompt as
\* read. When the prompt update raises the request ends there: the video is
\* stored and no job is enqueued. (When the insert raises nothing changes.)
\* ids is the set of video ids the requests considered may draw.
generate_video_found(ids, p) ==
    /\ ids \ DOMAIN videos # {}
    /\ p \in DOMAIN prompts
    /\ LET v == FreshVideoId(ids)
           prompt == prompts[p]
       IN /\ videos' = InsertOne(videos, v, video_doc(v, prompt))
          /\ \/ /\ prompts' = UpdateOne(prompts, p, [status |-> "generating"])
                /\ job' = [job EXCEPT ![v] = [NoJob EXCEPT !.pc = "start", !.prompt = prompt]]
             \/ UNCHANGED <<prompts, job>>
    /\ UNCHANGED <<FAL_KEY, access_token, business_account_id, mock_mode, performance, last>>

generate_video_in(ids, p) == generate_video_found(ids, p) /\ UNCHANGED call

generate_video(p) == generate_video_in(VideoIds, p)

\* The callers of the route, and the prompt ids they may ask for: the stored
\* prompt's and one that no prompt has.
Users == {"u1", "u2"}
RequestedPromptIds == PromptIds \cup {"p0"}

\* A lookup by the prompt id alone.
find_prompt_anyuser(prompt_id, user) == prompt_id \in DOMAIN prompts

\* db.prompts.find_one({"id": request.prompt_id, "user_id": current_user["id"]})
\* found a document.
find_prompt(prompt_id, user) ==
    prompt_id \in DOMAIN prompts /\ prompts[prompt_id].user_id = user

\* raise HTTPException(status_code=404, detail="Prompt not found")
NotFound == [status_code |-> 404, detail |-> "Prompt not found"]

\* The response of a request that found its prompt: the video when the
\* handler returned, an internal error when its prompt update raised.
VideoResponse(enqueued) == [status_code |-> IF enqueued THEN 200 ELSE 500]

\* POST /videos/generate by any caller for any prompt id, recorded with its
\* response: not found, with nothing changed, unless the caller has a prompt
\* of that id.
RequestVideo(ids, user, prompt_id) ==
    IF find_prompt(prompt_id, user)
    THEN /\ generate_video_found(ids, prompt_id)
         /\ call' = [fn |-> "generate_video", user |-> user, prompt_id |-> prompt_id,
                     response |-> VideoResponse(job' # job)]
    ELSE /\ call' = [fn |-> "generate_video", user |-> user, prompt_id |-> prompt_id,
                     response |-> NotFound]
         /\ UNCHANGED <<FAL_KEY, access_token, business_account_id, mock_mode,
                        videos, prompts, performance, job, last>>

RequestNext ==
    \E user \in Users, prompt_id \in RequestedPromptIds : RequestVideo(Pair, user, prompt_id)

RequestSpec == Init /\ [][RequestNext]_vars

\* ------------------------------------------------------------------ video renderer

\* A quantization that sends a length of exactly 30 to the longer clip.
ClipDuration_below(video_length) == IF video_length < 30 THEN 5 ELSE 10

\* duration = 5 if video_length <= 30 else 10
ClipDuration(video_length) == IF video_length <= 30 THEN 5 ELSE 10

\* The target lengths considered for a direct call of the renderer.
RenderLengths == 0..MaxLength

\* The arguments of the job submitted to the render API.
SubmitArguments(video_length) ==
    [duration |-> ClipDuration(video_length), aspect_ratio |-> "9:16",
     resolution |-> "1080p"]

\* What handler.get() may return: the result object of the render API, with or
\* without its video and duration entries; RenderError stands for submit_async
\* or get() raising.
RenderError == [error |-> "fal error"]
FalResults ==
    { [video |-> [url |-> "https://fal.media/out.mp4"], duration |-> 10],
      [video |-> [url |-> "https://fal.media/out.mp4"]],
      [duration |-> 5],
      RenderError }

\* A try block whose handler lets the exception of the render API through.
generate_video_with_fal_unguarded(result, video_length) ==
    IF result = RenderError
    THEN Raises
    ELSE [success |-> TRUE,
          video_url |-> Get(Get(result, "video", <<>>), "url", Null),
          duration |-> Get(result, "duration", IF video_length <= 30 THEN 5 ELSE 10)]

\* generate_video_with_fal below its FAL_KEY check: the try block.
generate_video_with_fal(result, video_length) ==
    IF result = RenderError
    THEN [success |-> FALSE, error |-> "fal error"]
    ELSE [success |-> TRUE,
          video_url |-> Get(Get(result, "video", <<>>), "url", Null),
          duration |-> Get(result, "duration", ClipDuration(video_length))]

\* ------------------------------------------------------------------ caption generator

\* A value of the parsed JSON: a string with its text, or a value that is no
\* string (null, a number, an object).
JsonStr(text) == [str |-> TRUE, chars |-> text]
JsonOther == [str |-> FALSE, chars |-> <<>>]

\* What the caption LLM call may yield: LlmError stands for send_message
\* raising or a response that is not JSON; otherwise the parsed object: with
\* both keys and a list of strings, with a hashtags entry that is no list,
\* without the hashtags key, with a caption that is no string, with a tag
\* that is no string. A caption is the sequence of the pieces of its text.
LlmError == [error |-> "llm error"]
LlmCaption == JsonStr(<<"llm caption">>)
LlmTags == [list |-> TRUE, items |-> <<JsonStr(<<"#", "a">>), JsonStr(<<"b">>)>>]
CaptionResponses ==
    { LlmError,
      [caption |-> LlmCaption, hashtags |-> LlmTags],
      [caption |-> LlmCaption, hashtags |-> [list |-> FALSE, items |-> <<>>]],
      [caption |-> LlmCaption],
      [caption |-> JsonOther, hashtags |-> LlmTags],
      [caption |-> LlmCaption,
       hashtags |-> [list |-> TRUE, items |-> <<JsonStr(<<"#", "a">>), JsonOther>>]] }
    \cup { [caption |-> LlmCaption,
            hashtags |-> [list |-> TRUE,
                          items |-> [i \in 1..Len(tags) |-> JsonStr(tags[i])]]] :
                tags \in TagLists }

\* The responses considered for the caption call of a job.
JobCaptionResponses == { LlmError, [caption |-> LlmCaption, hashtags |-> LlmTags] }

DefaultCaption(niche) ==
    <<"Check out this amazing ">> \o niche \o <<" content! Follow for more!">>

DefaultHashtags(niche) ==
    << <<"#">> \o SelectSeq(niche, LAMBDA c : c # " "),
       <<"#", "R">>, <<"#", "V">>, <<"#", "T">>, <<"#", "C">> >>

\* generate_caption_and_hashtags: the parsed response validated and its tags
\* normalized, or the default caption and tags on any failure.
\* The try block raises: the call or the parsing failed, a key is missing,
\* an element of the hashtags list has no startswith, or the caption cannot
\* be sliced.
CaptionRaises(response) ==
    \/ response = LlmError
    \/ "caption" \notin DOMAIN response
    \/ "hashtags" \notin DOMAIN response
    \/ /\ response.hashtags.list
       /\ \E i \in 1..Len(response.hashtags.items) : ~response.hashtags.items[i].str
    \/ ~response.caption.str

\* The hashtags entry as a list: a value that is no list becomes the empty list.
AsList(hashtags) == IF hashtags.list THEN hashtags.items ELSE <<>>

generate_caption_and_hashtags(response, niche) ==
    IF CaptionRaises(response)
    THEN [success |-> FALSE, error |-> "llm error",
          caption |-> DefaultCaption(niche), hashtags |-> DefaultHashtags(niche)]
    ELSE [success |-> TRUE,
          caption |-> response.caption.chars,
          hashtags |-> NormalizeTags([i \in 1..Len(AsList(response.hashtags)) |->
                                         AsList(response.hashtags)[i].chars])]

\* ------------------------------------------------------------------ prompt generator

\* The requests of POST /prompts/generate considered.
PromptRequests ==
    { [niche |-> Niche, platform |-> "instagram", video_length |-> len, tone |-> "calm"] :
          len \in VideoLengths }

\* What the prompt LLM call may yield: LlmError as for the caption, otherwise
\* the parsed object, whatever its keys.
PromptResponses ==
    { LlmError,
      [hook |-> "llm hook", scenes |-> <<>>, visual_style |-> "llm style",
       audio |-> "llm audio", metadata |-> "llm metadata"],
      [title |-> "llm title"] }

\* The default template built from the request.
DefaultPrompt(request) ==
    [hook |-> [description |-> <<"Captivating", request.niche>>, emotion |-> "curiosity"],
     scenes |-> << [scene_number |-> 1,
                    duration_seconds |-> request.video_length \div 3,
                    camera_movement |-> "slow zoom"] >>,
     visual_style |-> [cinematography |-> request.tone, mood |-> request.tone],
     audio |-> [music_style |-> request.tone, voiceover |-> "optional narration"],
     metadata |-> [aspect_ratio |-> "9:16", total_duration |-> request.video_length,
                   platform_optimization |-> request.platform]]

\* generate_video_prompt: the parsed response as it is, or the default
\* template on any failure.
generate_video_prompt(response, request) ==
    IF response = LlmError
    THEN [success |-> FALSE, error |-> "llm error", prompt |-> DefaultPrompt(request)]
    ELSE [success |-> TRUE, prompt |-> response]

\* ------------------------------------------------------------------ social publisher

MockContainerId == "mock_ig_0123456789ab"
LiveContainerId == "17900000000000001"
MockPostId == "mock_post_0123456789ab"
LivePostId == "17900000000000002"

\* A dict-valued result that is None.
NoneResult == [none |-> TRUE]

\* Falsy strings: None and "".
Falsy(x) == x = Null \/ x = ""

\* What _fetch_business_account_id may return: the id of the account the
\* access token belongs to, or None.
FetchedAccountIds == {"acct", Null}

\* What the GET /me/accounts request may yield: the pages of the account, or
\* None (a non-200 status, no page, or an exception). The Graph API answers a
\* request without an access token with an error status.
AccountsResponses == IF access_token = "" THEN {Null} ELSE {"pages", Null}

\* _fetch_business_account_id: nothing without the pages, otherwise the id
\* linked to the first page (page: what GET /{page} yields, an id or None).
fetch_business_account_id(accounts, page) ==
    IF Falsy(accounts) THEN Null ELSE page

\* The HTTP requests one call of _fetch_business_account_id makes.
FetchRequests(accounts) ==
    IF Falsy(accounts)
    THEN <<"GET /me/accounts">>
    ELSE <<"GET /me/accounts", "GET /{page}">>

\* What the POST /{account}/media request may yield: the new container's id,
\* or None (a non-200 status, a body without id, or an exception).
ContainerResponses == {LiveContainerId, Null}

\* A formatting that puts a '#' in front of every tag.
FormatTag_always(tag) == <<"#">> \o tag

\* f"#{tag}" if not tag.startswith("#") else tag
FormatTag(tag) == IF ~StartsWithHash(tag) THEN <<"#">> \o tag ELSE tag

\* The list joined into the caption by create_media_container.
FormatTags(hashtags) == [i \in 1..Len(hashtags) |-> FormatTag(hashtags[i])]

\* " ".join(tags)
RECURSIVE Join(_)
Join(tags) ==
    IF tags = <<>> THEN <<>>
    ELSE IF Len(tags) = 1 THEN tags[1]
    ELSE tags[1] \o <<" ">> \o Join(Tail(tags))

\* The caption of the container request: the hashtags, if any, after it.
FormatCaption(caption, hashtags) ==
    IF hashtags # <<>>
    THEN caption \o <<"\n\n">> \o Join(FormatTags(hashtags))
    ELSE caption

\* A mock branch that puts the singleton back in live mode.
create_media_container_relive(fetched, posted) ==
    IF mock_mode
    THEN [id |-> MockContainerId, mock_mode |-> FALSE,
          business_account_id |-> business_account_id]
    ELSE [id |-> posted, mock_mode |-> mock_mode,
          business_account_id |-> business_account_id]

\* A live branch that answers a failed container request as it answers a
\* failed resolution: by turning to mock mode and returning a mock id.
create_media_container_fallback(fetched, posted) ==
    IF mock_mode
    THEN [id |-> MockContainerId, mock_mode |-> mock_mode,
          business_account_id |-> business_account_id]
    ELSE IF Falsy(posted)
         THEN [id |-> MockContainerId, mock_mode |-> TRUE,
               business_account_id |-> business_account_id]
         ELSE [id |-> posted, mock_mode |-> mock_mode,
               business_account_id |-> business_account_id]

\* create_media_container: the id returned and the singleton's fields after
\* the call. In mock mode a mock id at once. In live mode without an account
\* id the id is resolved first; when that fails the singleton turns to mock
\* mode and the call is repeated under it.
create_media_container(fetched, posted) ==
    IF mock_mode
    THEN [id |-> MockContainerId, mock_mode |-> mock_mode,
          business_account_id |-> business_account_id]
    ELSE IF Falsy(business_account_id)
         THEN IF Falsy(fetched)
              THEN [id |-> MockContainerId, mock_mode |-> TRUE,
                    business_account_id |-> fetched]
              ELSE [id |-> posted, mock_mode |-> mock_mode,
                    business_account_id |-> fetched]
         ELSE [id |-> posted, mock_mode |-> mock_mode,
               business_account_id |-> business_account_id]

\* The HTTP requests one call of create_media_container makes.
ContainerRequests(accounts, fetched) ==
    IF mock_mode
    THEN <<>>
    ELSE IF Falsy(business_account_id)
         THEN IF Falsy(fetched)
              THEN FetchRequests(accounts)
              ELSE FetchRequests(accounts) \o <<"POST /{account}/media">>
         ELSE <<"POST /{account}/media">>

\* What the GET /{container}?fields=status_code request may yield: the parsed
\* body, None (non-200 or exception), or a body that is not a JSON object.
NotADict == [not_a_dict |-> TRUE]
StatusResponses ==
    { [status_code |-> "FINISHED"], [status_code |-> "IN_PROGRESS"], NoneResult, NotADict }

\* A mock branch that is missing: the status is asked of the API in any mode.
get_container_status_always_live(response) == response

get_container_status(response) ==
    IF mock_mode
    THEN [status |-> "FINISHED", status_code |-> "FINISHED"]
    ELSE response

\* The HTTP requests one call of get_container_status makes.
StatusRequests == IF mock_mode THEN <<>> ELSE <<"GET /{container}">>

\* What the POST /{account}/media_publish request may yield: status 200 with
\* the media id, or a failure (non-200 or exception).
PublishError == [error |-> "publish error"]
PublishResponses == { [id |-> LivePostId], PublishError }

\* The mock branch of publish_reel: what it returns after its asyncio.sleep(2).
publish_reel_mock ==
    [success |-> TRUE, instagram_post_id |-> MockPostId,
     instagram_url |-> "https://instagram.com/p/mock", posted_at |-> "t_posted"]

\* The live branch of publish_reel.
publish_reel_live(response) ==
    IF response = PublishError
    THEN [success |-> FALSE, error |-> "publish error"]
    ELSE [success |-> TRUE, instagram_post_id |-> Get(response, "id", Null),
          instagram_url |-> "https://www.instagram.com/reel/", posted_at |-> "t_posted"]

\* publish_reel: the branch is chosen by the mode read when the call begins.
publish_reel(response) ==
    IF mock_mode THEN publish_reel_mock ELSE publish_reel_live(response)

\* The HTTP requests one call of publish_reel makes.
PublishRequests == IF mock_mode THEN <<>> ELSE <<"POST /{account}/media_publish">>

\* What the GET /{media}/insights request may yield: the metrics parsed from
\* the body, or None (non-200 or exception).
InsightsResponses == { [reach |-> 150, likes |-> 10], NoneResult }

\* random.randint(100, 10000) for the views of the mock analytics.
MockViews == {100, 10000}

get_reel_insights(response, views) ==
    IF mock_mode
    THEN [views |-> views, likes |-> 10, comments |-> 5, shares |-> 2,
          saves |-> 5, reach |-> 150]
    ELSE response

\* The HTTP requests one call of get_reel_insights makes.
InsightsRequests == IF mock_mode THEN <<>> ELSE <<"GET /{media}/insights">>

\* ------------------------------------------------------------------ orchestrator

\* A first write that already stores the sample video's URL.
ProcessingFields_placeholder == [status |-> "processing", video_url |-> PlaceholderUrl]

\* The fields of the $set of each write to the job's video document.
ProcessingFields == [status |-> "processing"]

\* Publish succeeded.
CompletedSuccessFields(f) ==
    [status |-> "completed",
     video_url |-> f.video_url,
     duration |-> IF f.video_result.success
                  THEN Get(f.video_result, "duration", Get(f.prompt, "video_length", 30))
                  ELSE Get(f.prompt, "video_length", 30),
     completed_at |-> f.completed_at,
     caption_text |-> f.caption,
     hashtags_used |-> f.hashtags,
     instagram_post_id |-> Get(f.publish_result, "instagram_post_id", Null),
     posted_at |-> Get(f.publish_result, "posted_at", Null),
     platform |-> "instagram"]

\* A failure branch that also gives up the caption.
CompletedPublishFailedFields_nocaption(f) ==
    [CompletedSuccessFields(f) EXCEPT !.caption_text = <<>>, !.instagram_post_id = Null,
                                      !.posted_at = Null]

\* Publish returned a failure.
CompletedPublishFailedFields(f) ==
    [status |-> "completed",
     video_url |-> f.video_url,
     duration |-> IF f.video_result.success
                  THEN Get(f.video_result, "duration", Get(f.prompt, "video_length", 30))
                  ELSE Get(f.prompt, "video_length", 30),
     completed_at |-> f.completed_at,
     caption_text |-> f.caption,
     hashtags_used |-> f.hashtags,
     instagram_post_id |-> Null,
     posted_at |-> Null,
     platform |-> "instagram"]

\* Container creation returned None.
CompletedContainerFailedFields(f) ==
    [status |-> "completed",
     video_url |-> f.video_url,
     duration |-> IF f.video_result.success
                  THEN Get(f.video_result, "duration", Get(f.prompt, "video_length", 30))
                  ELSE Get(f.prompt, "video_length", 30),
     completed_at |-> f.completed_at,
     caption_text |-> f.caption,
     hashtags_used |-> f.hashtags,
     instagram_post_id |-> Null,
     posted_at |-> Null,
     platform |-> "instagram"]

\* A handler of the publishing try block that writes the status alone.
CompletedExceptionFields_statusonly(f) == [status |-> "completed"]

\* A handler of the publishing try block that stores the requested length
\* whatever the renderer reported.
CompletedExceptionFields_requested(f) ==
    [status |-> "completed",
     video_url |-> f.video_url,
     duration |-> Get(f.prompt, "video_length", 30),
     completed_at |-> f.completed_at,
     caption_text |-> f.caption,
     hashtags_used |-> f.hashtags,
     instagram_post_id |-> Null,
     posted_at |-> Null,
     platform |-> "instagram"]

\* An exception was raised inside the publishing try block.
CompletedExceptionFields(f) ==
    [status |-> "completed",
     video_url |-> f.video_url,
     duration |-> IF f.video_result.success
                  THEN Get(f.video_result, "duration", Get(f.prompt, "video_length", 30))
                  ELSE Get(f.prompt, "video_length", 30),
     completed_at |-> f.completed_at,
     caption_text |-> f.caption,
     hashtags_used |-> f.hashtags,
     instagram_post_id |-> Null,
     posted_at |-> Null,
     platform |-> "instagram"]

\* A handler that puts the video back in the queue instead of failing it.
FailedFields_requeue == [status |-> "queued"]

\* A handler that also clears the video's URL.
FailedFields_reset == [status |-> "failed", video_url |-> Null]

\* The outer exception handler.
FailedFields == [status |-> "failed"]

performance_doc(v, f) ==
    [id |-> Len(performance) + 1, video_id |-> v, views |-> 0, likes |-> 0,
     shares |-> 0, comments |-> 0, watch_time_avg |-> 0, updated_at |-> f.completed_at]

\* An exception leaves the body of the outer try: control is in its handler.
Raised(f, cause) == [f EXCEPT !.pc = "except", !.exc = cause]

\* An exception is raised inside the publishing try block: control is in its handler.
RaisedInPublishing(f, cause) == [f EXCEPT !.pc = "completed_exception", !.ig_error = cause]

publisher == <<access_token, business_account_id, mock_mode>>

\* await db.videos.update_one(... status processing)
StartProcessing(v) ==
    /\ job[v].pc = "start"
    /\ \/ /\ videos' = UpdateOne(videos, v, ProcessingFields)
          /\ job' = [job EXCEPT ![v].pc = "render"]
          /\ last' = [last EXCEPT ![v] = Op("set_processing", TRUE)]
       \/ /\ job' = [job EXCEPT ![v] = Raised(@, "store")]
          /\ last' = [last EXCEPT ![v] = Op("set_processing", FALSE)]
          /\ UNCHANGED videos
    /\ UNCHANGED <<FAL_KEY, call, publisher, prompts, performance>>

\* await generate_video_with_fal(...), then the choice of video_url. The call
\* raises ValueError before its try block when FAL_KEY is not configured.
Render(v) ==
    /\ job[v].pc = "render"
    /\ IF FAL_KEY = ""
       THEN /\ job' = [job EXCEPT ![v] = Raised(@, "render")]
            /\ last' = [last EXCEPT ![v] = Op("render", FALSE)]
       ELSE \E result \in FalResults :
              LET video_result ==
                      generate_video_with_fal(result, Get(job[v].prompt, "video_length", 30))
              IN /\ job' = [job EXCEPT ![v] =
                        [@ EXCEPT !.pc = "caption",
                                  !.video_result = video_result,
                                  !.completed_at = "t_completed",
                                  !.video_url = IF video_result.success
                                                THEN video_result.video_url
                                                ELSE PlaceholderUrl]]
                 /\ last' = [last EXCEPT ![v] = Op("render", TRUE)]
    /\ UNCHANGED <<FAL_KEY, call, publisher, videos, prompts, performance>>

\* await generate_caption_and_hashtags(...), then caption and hashtags.
Caption(v) ==
    /\ job[v].pc = "caption"
    /\ \E response \in JobCaptionResponses :
         LET caption_result ==
                 generate_caption_and_hashtags(response, Get(job[v].prompt, "niche", <<>>))
         IN job' = [job EXCEPT ![v] =
                [@ EXCEPT !.pc = "container",
                          !.caption = Get(caption_result, "caption",
                                          <<"Check out this amazing video!">>),
                          !.hashtags = Get(caption_result, "hashtags",
                                           << <<"#", "R">>, <<"#", "V">> >>)]]
    /\ last' = [last EXCEPT ![v] = Op("caption", TRUE)]
    /\ UNCHANGED <<FAL_KEY, call, publisher, videos, prompts, performance>>

\* The call of publish_reel begins: it reads the mode and waits, in the mock
\* branch at asyncio.sleep(2), in the live branch at its request. No other task
\* runs between the return of the await before it and this read.
PublishCall(mock) == IF mock THEN "publish_mock" ELSE "publish"

\* await instagram_service.create_media_container(...), then the branch on
\* the container id and on the mode, up to the first test of the poll loop
\* or, when the loop is skipped, up to the call of publish_reel. The mock
\* branch of create_media_container awaits nothing.
CreateContainer(v) ==
    /\ job[v].pc = "container"
    /\ \E fetched \in FetchedAccountIds, posted \in ContainerResponses :
         LET r == create_media_container(fetched, posted)
         IN /\ mock_mode' = r.mock_mode
            /\ business_account_id' = r.business_account_id
            /\ job' = [job EXCEPT ![v] =
                   [@ EXCEPT !.container_id = r.id,
                             !.retry_count = 0,
                             !.pc = IF Falsy(r.id) THEN "completed_container_failed"
                                    ELSE IF ~r.mock_mode /\ 0 < max_retries THEN "poll"
                                    ELSE PublishCall(r.mock_mode)]]
    /\ last' = [last EXCEPT ![v] = Op("create_container", TRUE)]
    /\ UNCHANGED <<FAL_KEY, call, access_token, videos, prompts, performance>>

\* The poll loop is left: retry_count is read for the last time by the test
\* that follows the loop, so the frame keeps it no longer.
LeaveLoop(f, pc) == [f EXCEPT !.retry_count = 0, !.pc = pc]

\* await instagram_service.get_container_status(container_id): break when
\* FINISHED, otherwise count the attempt. `.get` on a body that is no JSON
\* object raises inside the publishing try block.
PollStatus(v) ==
    /\ job[v].pc = "poll"
    /\ \E response \in StatusResponses :
         LET status_result == get_container_status(response)
         IN /\ job' = [job EXCEPT ![v] =
                   IF status_result = NoneResult
                   THEN [@ EXCEPT !.retry_count = @ + 1, !.pc = "sleep"]
                   ELSE IF status_result = NotADict
                   THEN LeaveLoop(RaisedInPublishing(@, "publisher"), "completed_exception")
                   ELSE IF Get(status_result, "status_code", Null) = "FINISHED"
                   THEN LeaveLoop(@, PublishCall(mock_mode))
                   ELSE [@ EXCEPT !.retry_count = @ + 1, !.pc = "sleep"]]
            /\ last' = [last EXCEPT ![v] =
                   StatusOp(Get(status_result, "status_code", Null) = "FINISHED")]
    /\ UNCHANGED <<FAL_KEY, call, publisher, videos, prompts, performance>>

\* A loop test that admits one more attempt: retry_count <= max_retries.
PollSleep_onemore(v) ==
    /\ job[v].pc = "sleep"
    /\ job' = [job EXCEPT ![v] =
                  IF @.retry_count <= max_retries
                  THEN [@ EXCEPT !.pc = "poll"]
                  ELSE LeaveLoop(@, PublishCall(mock_mode))]
    /\ last' = [last EXCEPT ![v] = Op("sleep", TRUE)]
    /\ UNCHANGED <<FAL_KEY, call, publisher, videos, prompts, performance>>

\* await asyncio.sleep(2), then the loop test.
PollSleep(v) ==
    /\ job[v].pc = "sleep"
    /\ job' = [job EXCEPT ![v] =
                  IF @.retry_count < max_retries
                  THEN [@ EXCEPT !.pc = "poll"]
                  ELSE LeaveLoop(@, PublishCall(mock_mode))]
    /\ last' = [last EXCEPT ![v] = Op("sleep", TRUE)]
    /\ UNCHANGED <<FAL_KEY, call, publisher, videos, prompts, performance>>

\* A call of publish_reel that reads the mode when it returns.
PublishResult_late(f, response) == publish_reel(response)

\* What the call of publish_reel that frame f waits in returns: the result of
\* the branch the call took when it began.
PublishResult(f, response) ==
    IF f.pc = "publish_mock" THEN publish_reel_mock ELSE publish_reel_live(response)

\* A job that calls publish_reel again after it returned.
Publish_again(v) ==
    /\ job[v].pc \in {"publish", "publish_mock"}
    /\ \E response \in PublishResponses :
         job' = [job EXCEPT ![v].publish_result = PublishResult(job[v], response)]
    /\ last' = [last EXCEPT ![v] = Op("publish", TRUE)]
    /\ UNCHANGED <<FAL_KEY, call, publisher, videos, prompts, performance>>

\* The awaited publish_reel returns, then the branch on its result.
Publish(v) ==
    /\ job[v].pc \in {"publish", "publish_mock"}
    /\ \E response \in PublishResponses :
         LET publish_result == PublishResult(job[v], response)
         IN job' = [job EXCEPT ![v] =
                [@ EXCEPT !.publish_result = publish_result,
                          !.pc = IF Get(publish_result, "success", FALSE)
                                 THEN "completed_success"
                                 ELSE "completed_publish_failed"]]
    /\ last' = [last EXCEPT ![v] = Op("publish", TRUE)]
    /\ UNCHANGED <<FAL_KEY, call, publisher, videos, prompts, performance>>

\* The status completed write of a branch inside the publishing try block; an
\* exception it raises is caught by that block's handler.
WriteCompleted(v, at, fields, name) ==
    /\ job[v].pc = at
    /\ \/ /\ videos' = UpdateOne(videos, v, fields)
          /\ job' = [job EXCEPT ![v].pc = "update_prompt"]
          /\ last' = [last EXCEPT ![v] = Op(name, TRUE)]
       \/ /\ job' = [job EXCEPT ![v] = RaisedInPublishing(@, "store")]
          /\ last' = [last EXCEPT ![v] = Op(name, FALSE)]
          /\ UNCHANGED videos
    /\ UNCHANGED <<FAL_KEY, call, publisher, prompts, performance>>

\* The success write placed before the call of publish_reel.
CompletedSuccess_early(v) ==
    WriteCompleted(v, "publish", CompletedSuccessFields(job[v]), "set_completed_success")

CompletedSuccess(v) ==
    WriteCompleted(v, "completed_success", CompletedSuccessFields(job[v]),
                   "set_completed_success")

CompletedPublishFailed(v) ==
    WriteCompleted(v, "completed_publish_failed", CompletedPublishFailedFields(job[v]),
                   "set_completed_publish_failed")

CompletedContainerFailed(v) ==
    WriteCompleted(v, "completed_container_failed", CompletedContainerFailedFields(job[v]),
                   "set_completed_container_failed")

\* The status completed write of the publishing try block's handler; an
\* exception it raises leaves the body.
CompletedException(v) ==
    /\ job[v].pc = "completed_exception"
    /\ \/ /\ videos' = UpdateOne(videos, v, CompletedExceptionFields(job[v]))
          /\ job' = [job EXCEPT ![v].pc = "update_prompt"]
          /\ last' = [last EXCEPT ![v] = Op("set_completed_exception", TRUE)]
       \/ /\ job' = [job EXCEPT ![v] = Raised(@, "store")]
          /\ last' = [last EXCEPT ![v] = Op("set_completed_exception", FALSE)]
          /\ UNCHANGED videos
    /\ UNCHANGED <<FAL_KEY, call, publisher, prompts, performance>>

\* await db.prompts.update_one(... status completed)
UpdatePrompt(v) ==
    /\ job[v].pc = "update_prompt"
    /\ \/ /\ prompts' = UpdateOne(prompts, job[v].prompt.id, [status |-> "completed"])
          /\ job' = [job EXCEPT ![v].pc = "insert_performance"]
          /\ last' = [last EXCEPT ![v] = Op("update_prompt", TRUE)]
       \/ /\ job' = [job EXCEPT ![v] = Raised(@, "store")]
          /\ last' = [last EXCEPT ![v] = Op("update_prompt", FALSE)]
          /\ UNCHANGED prompts
    /\ UNCHANGED <<FAL_KEY, call, publisher, videos, performance>>

\* await db.performance.insert_one(...), the last statement of the body.
InsertPerformance(v) ==
    /\ job[v].pc = "insert_performance"
    /\ \/ /\ performance' = Append(performance, performance_doc(v, job[v]))
          /\ job' = [job EXCEPT ![v].pc = "returned"]
          /\ last' = [last EXCEPT ![v] = Op("insert_performance", TRUE)]
       \/ /\ job' = [job EXCEPT ![v] = Raised(@, "store")]
          /\ last' = [last EXCEPT ![v] = Op("insert_performance", FALSE)]
          /\ UNCHANGED performance
    /\ UNCHANGED <<FAL_KEY, call, publisher, videos, prompts>>

\* except Exception: await db.videos.update_one(... status failed). When this
\* write raises the exception leaves process_video_generation.
HandleException(v) ==
    /\ job[v].pc = "except"
    /\ \/ /\ videos' = UpdateOne(videos, v, FailedFields)
          /\ job' = [job EXCEPT ![v].pc = "returned"]
          /\ last' = [last EXCEPT ![v] = Op("set_failed", TRUE)]
       \/ /\ job' = [job EXCEPT ![v].pc = "raised"]
          /\ last' = [last EXCEPT ![v] = Op("set_failed", FALSE)]
          /\ UNCHANGED videos
    /\ UNCHANGED <<FAL_KEY, call, publisher, prompts, performance>>

\* A job whose steps wait for the waits of the other jobs: a sleep that holds
\* the event loop.
process_video_generation_blocking(v) ==
    /\ \A w \in AllIds \ {v} : job[w].pc # "sleep"
    /\ \/ StartProcessing(v)
       \/ Render(v)
       \/ Caption(v)
       \/ CreateContainer(v)
       \/ PollStatus(v)
       \/ PollSleep(v)
       \/ Publish(v)
       \/ CompletedSuccess(v)
       \/ CompletedPublishFailed(v)
       \/ CompletedContainerFailed(v)
       \/ CompletedException(v)
       \/ UpdatePrompt(v)
       \/ InsertPerformance(v)
       \/ HandleException(v)

process_video_generation(v) ==
    \/ StartProcessing(v)
    \/ Render(v)
    \/ Caption(v)
    \/ CreateContainer(v)
    \/ PollStatus(v)
    \/ PollSleep(v)
    \/ Publish(v)
    \/ CompletedSuccess(v)
    \/ CompletedPublishFailed(v)
    \/ CompletedContainerFailed(v)
    \/ CompletedException(v)
    \/ UpdatePrompt(v)
    \/ InsertPerformance(v)
    \/ HandleException(v)

\* ------------------------------------------------------------------ configuration routes

\* GET /instagram/config: reads the singleton's fields and changes nothing.
get_instagram_config == UNCHANGED vars

\* What _fetch_business_account_id may return to the route.
FetchResults ==
    { fetch_business_account_id(accounts, page) :
          accounts \in AccountsResponses, page \in FetchedAccountIds }

\* A route that puts the singleton in live mode without storing the id.
StoreAccountId_modeonly(account_id) ==
    IF ~Falsy(account_id)
    THEN /\ mock_mode' = FALSE
         /\ UNCHANGED business_account_id
    ELSE UNCHANGED <<business_account_id, mock_mode>>

\* The route's use of the account id it got: a fetched id is stored in the
\* singleton and the singleton is put in live mode.
StoreAccountId(account_id) ==
    IF ~Falsy(account_id)
    THEN /\ business_account_id' = account_id
         /\ mock_mode' = FALSE
    ELSE UNCHANGED <<business_account_id, mock_mode>>

\* POST /instagram/fetch-account-id
fetch_instagram_account_id ==
    /\ \E account_id \in FetchResults : StoreAccountId(account_id)
    /\ UNCHANGED <<FAL_KEY, call, access_token, videos, prompts, performance, job, last>>

Next ==
    \/ \E p \in PromptIds : generate_video(p)
    \/ \E v \in VideoIds : process_video_generation(v)
    \/ get_instagram_config
    \/ fetch_instagram_account_id

Spec == Init /\ [][Next]_vars

\* Two requests whose jobs run concurrently, with the render key and the
\* publisher in live mode, so that both jobs get as far as the poll loop.
PairInit == Init /\ FAL_KEY # "" /\ ~mock_mode

PairNext ==
    \/ \E p \in PromptIds : generate_video_in(Pair, p)
    \/ \E v \in Pair : process_video_generation(v)
    \/ get_instagram_config
    \/ fetch_instagram_account_id

PairSpec == PairInit /\ [][PairNext]_vars

\* ------------------------------------------------------------------ direct calls

\* The record of one call of a service component by a caller: the component,
\* the singleton's mode when the call began, whether a request to the
\* component's external service failed, what the call returned and the
\* requests it made, in order.
Called(fn, failed, result, requests) ==
    [fn |-> fn, mock_mode |-> mock_mode, failed |-> failed, result |-> result,
     requests |-> requests]

CallPrompt ==
    /\ \E request \in PromptRequests, response \in PromptResponses :
         call' = Called("generate_video_prompt", response = LlmError,
                        generate_video_prompt(response, request), <<"send_message">>)
    /\ UNCHANGED <<FAL_KEY, publisher, videos, prompts, performance, job, last>>

\* The call's record also keeps the niche passed and the LLM's response.
CallCaption ==
    /\ \E response \in CaptionResponses, niche \in Niches :
         call' = Called("generate_caption_and_hashtags", response = LlmError,
                        generate_caption_and_hashtags(response, niche), <<"send_message">>)
                 @@ [niche |-> niche, response |-> response]
    /\ UNCHANGED <<FAL_KEY, publisher, videos, prompts, performance, job, last>>

\* RenderError is raised by submit_async or by get(). The call's record also
\* keeps the target length passed and the arguments submitted.
CallRender ==
    /\ \E result \in FalResults, video_length \in RenderLengths :
       \E n \in IF result = RenderError THEN {1, 2} ELSE {2} :
         call' = IF FAL_KEY = ""
                 THEN Called("generate_video_with_fal", FALSE, Raises, <<>>)
                 ELSE Called("generate_video_with_fal", result = RenderError,
                             generate_video_with_fal(result, video_length),
                             IF result = RenderError
                             THEN SubSeq(<<"submit_async", "get">>, 1, n)
                             ELSE <<"submit_async", "get">>)
                      @@ [video_length |-> video_length,
                          submitted |-> SubmitArguments(video_length)]
    /\ UNCHANGED <<FAL_KEY, publisher, videos, prompts, performance, job, last>>

\* The call's record also keeps the hashtags passed and, when the container
\* request was made, the tags put in its caption and that caption.
CallCreateContainer ==
    /\ \E accounts \in AccountsResponses, page \in FetchedAccountIds,
          posted \in ContainerResponses, hashtags \in TagLists :
         LET fetched == fetch_business_account_id(accounts, page)
             r == create_media_container(fetched, posted)
             requests == ContainerRequests(accounts, fetched)
             requested == requests # <<>> /\ requests[Len(requests)] = "POST /{account}/media"
         IN /\ mock_mode' = r.mock_mode
            /\ business_account_id' = r.business_account_id
            /\ call' = Called("create_media_container",
                              ~mock_mode /\ (Falsy(posted) \/ (Falsy(business_account_id)
                                                                 /\ Falsy(fetched))),
                              [id |-> r.id], requests)
                        @@ [hashtags |-> hashtags,
                            tags |-> IF requested THEN FormatTags(hashtags) ELSE <<>>,
                            caption |-> IF requested
                                        THEN FormatCaption(<<"llm caption">>, hashtags)
                                        ELSE <<>>]
    /\ UNCHANGED <<FAL_KEY, access_token, videos, prompts, performance, job, last>>

CallContainerStatus ==
    /\ \E response \in StatusResponses :
         call' = Called("get_container_status", ~mock_mode /\ response = NoneResult,
                        get_container_status(response), StatusRequests)
    /\ UNCHANGED <<FAL_KEY, publisher, videos, prompts, performance, job, last>>

CallPublishReel ==
    /\ \E response \in PublishResponses :
         call' = Called("publish_reel", ~mock_mode /\ response = PublishError,
                        publish_reel(response), PublishRequests)
    /\ UNCHANGED <<FAL_KEY, publisher, videos, prompts, performance, job, last>>

CallReelInsights ==
    /\ \E response \in InsightsResponses, views \in MockViews :
         call' = Called("get_reel_insights", ~mock_mode /\ response = NoneResult,
                        get_reel_insights(response, views), InsightsRequests)
    /\ UNCHANGED <<FAL_KEY, publisher, videos, prompts, performance, job, last>>

\* _fetch_business_account_id as the fetch-account-id route calls it.
CallFetchAccountId ==
    /\ \E accounts \in AccountsResponses, page \in FetchedAccountIds :
         LET account_id == fetch_business_account_id(accounts, page)
         IN /\ StoreAccountId(account_id)
            /\ call' = Called("fetch_business_account_id", Falsy(account_id),
                              [id |-> account_id], FetchRequests(accounts))
    /\ UNCHANGED <<FAL_KEY, access_token, videos, prompts, performance, job, last>>

ServiceNext ==
    \/ CallPrompt
    \/ CallCaption
    \/ CallRender
    \/ CallCreateContainer
    \/ CallContainerStatus
    \/ CallPublishReel
    \/ CallReelInsights
    \/ CallFetchAccountId

\* The service components called one after the other, in any order, on the
\* singleton as constructed.
ServiceSpec == Init /\ [][ServiceNext]_vars

\* Every awaited call of an enqueued job eventually returns or raises.
FairSpec == Spec /\ \A v \in VideoIds : WF_vars(process_video_generation(v))

\* ------------------------------------------------------------------ render prompt text

\* The texts of a generated prompt: the hook's description, the scenes'
\* visual descriptions by scene number, the cinematography and the mood.
HookText == "hook text"
SceneTexts == <<"scene one", "scene two", "scene three", "scene four">>
StyleText == "cine text"
MoodText == "mood text"

\* The hook of a generated prompt: with its description, with an empty one,
\* or without one.
Hooks == { [type |-> "question", description |-> HookText],
           [type |-> "question", description |-> ""],
           [type |-> "question"] }

\* Scene i of a generated prompt: with its visual description, with an empty
\* one, or without one.
SceneDocs(i) ==
    { [scene_number |-> i, visual_description |-> SceneTexts[i]],
      [scene_number |-> i, visual_description |-> ""],
      [scene_number |-> i] }

\* The scene lists of a generated prompt: none, fewer than 3, 3, more than 3.
SceneLists ==
    UNION { { s \in [1..n -> UNION { SceneDocs(i) : i \in 1..n }] :
                  \A i \in 1..n : s[i] \in SceneDocs(i) } : n \in 0..Len(SceneTexts) }

\* The visual style of a generated prompt.
VisualStyles ==
    { [cinematography |-> StyleText, mood |-> MoodText],
      [cinematography |-> "", mood |-> MoodText],
      [cinematography |-> StyleText],
      [color_palette |-> "warm"] }

\* The prompts a job may be enqueued with: with a generated prompt that has a
\* hook, scenes and a visual style, with one that has a hook only, or with none.
RenderPrompts ==
    { [id |-> "p1", generated_prompt |-> [hook |-> h, scenes |-> s, visual_style |-> vs]] :
          h \in Hooks, s \in SceneLists, vs \in VisualStyles }
        \cup { [id |-> "p1", generated_prompt |-> [hook |-> h]] : h \in Hooks }
        \cup { [id |-> "p1"] }

\* A loop over all the scenes.
FirstScenes_all(scenes) == scenes

\* scenes[:3]
FirstScenes(scenes) == SubSeq(scenes, 1, IF Len(scenes) < 3 THEN Len(scenes) ELSE 3)

\* The parts appended by: for scene in ...: if scene.get("visual_description")
RECURSIVE SceneParts(_)
SceneParts(scenes) ==
    IF scenes = <<>> THEN <<>>
    ELSE (IF ~Falsy(Get(Head(scenes), "visual_description", Null))
          THEN << <<Head(scenes).visual_description>> >>
          ELSE <<>>) \o SceneParts(Tail(scenes))

\* prompt_text_parts when the loops are over; a part is the sequence of its
\* text pieces.
prompt_text_parts(prompt) ==
    LET prompt_data == Get(prompt, "generated_prompt", <<>>)
        hook == Get(prompt_data, "hook", <<>>)
        scenes == Get(prompt_data, "scenes", <<>>)
        visual_style == Get(prompt_data, "visual_style", <<>>)
    IN (IF ~Falsy(Get(hook, "description", Null))
        THEN << <<"Opening: ", hook.description>> >> ELSE <<>>)
       \o SceneParts(FirstScenes(scenes))
       \o (IF ~Falsy(Get(visual_style, "cinematography", Null))
           THEN << <<"Style: ", visual_style.cinematography>> >> ELSE <<>>)
       \o (IF ~Falsy(Get(visual_style, "mood", Null))
           THEN << <<"Mood: ", visual_style.mood>> >> ELSE <<>>)

\* ". ".join(parts)
RECURSIVE JoinParts(_)
JoinParts(parts) ==
    IF parts = <<>> THEN <<>>
    ELSE IF Len(parts) = 1 THEN parts[1]
    ELSE parts[1] \o <<". ">> \o JoinParts(Tail(parts))

\* prompt_text, the text process_video_generation hands to the renderer.
prompt_text(prompt) == JoinParts(prompt_text_parts(prompt))

\* The job's construction of the render prompt text for a prompt, recorded
\* with the prompt it was built from.
BuildPromptText ==
    /\ \E prompt \in RenderPrompts :
           call' = [fn |-> "prompt_text", prompt |-> prompt,
                    prompt_text |-> prompt_text(prompt)]
    /\ UNCHANGED <<FAL_KEY, publisher, videos, prompts, performance, job, last>>

PromptTextInit == Init /\ FAL_KEY # "" /\ mock_mode = FALSE

PromptTextNext == BuildPromptText

PromptTextSpec == PromptTextInit /\ [][PromptTextNext]_vars

\* ------------------------------------------------------------------ properties

StatusOf(v) == IF v \in DOMAIN videos THEN videos[v].status ELSE "absent"

TerminalStatuses == {"completed", "failed"}

\* The job's coroutine is over: it returned, or its handler's write raised.
Ended(v) == job[v].pc \in {"returned", "raised"}

\* C1: once a job's video document has status completed or failed, no later
\* write changes its status.
C1_StatusNeverRevisited ==
    [][\A v \in DOMAIN videos :
          videos[v].status \in TerminalStatuses => videos'[v].status = videos[v].status]_vars

\* C2: under fairness, every enqueued job's video eventually has status
\* completed or failed, whichever calls raise.
C2_EventuallyTerminal ==
    \A v \in VideoIds : (job[v].pc = "start") ~> (StatusOf(v) \in TerminalStatuses)

\* C3: whenever process_video_generation has returned normally (from its body
\* or from its exception handler), the status of its video document is
\* completed or failed.
C3_ReturnedIsTerminal ==
    \A v \in VideoIds : job[v].pc = "returned" => StatusOf(v) \in TerminalStatuses

\* A job returned from its exception handler, which wrote failed over processing.
C3_Witness ==
    \E v \in VideoIds :
        /\ job[v].pc = "returned"
        /\ job[v].exc = "store"
        /\ last[v] = Op("set_failed", TRUE)
        /\ StatusOf(v) = "failed"

\* The render step of job v failed: generate_video_with_fal raised or
\* returned success false.
RenderFailed(v) ==
    \/ job[v].exc = "render"
    \/ job[v].video_result # Unbound /\ ~Get(job[v].video_result, "success", FALSE)

\* C4: a job whose render step failed in any way, and in which no record-store
\* call raised, ends with status completed and the placeholder video_url.
C4_RenderFailureStillCompletes ==
    \A v \in VideoIds :
        (Ended(v) /\ RenderFailed(v) /\ job[v].exc # "store" /\ job[v].ig_error # "store")
            => /\ StatusOf(v) = "completed"
               /\ videos[v].video_url = PlaceholderUrl

\* Publishing failed for job v: container creation returned None, publish_reel
\* returned a failure, or a publisher sub-step raised.
PublishingFailed(v) ==
    \/ /\ last[v].op \notin {"none", "set_processing", "render", "caption"}
       /\ Falsy(job[v].container_id)
    \/ job[v].publish_result # Unbound /\ ~Get(job[v].publish_result, "success", FALSE)
    \/ job[v].ig_error = "publisher"

\* C5: when publishing failed the job still writes status completed (its body
\* ends only after that write), with instagram_post_id and posted_at null and
\* with video_url, duration, caption_text and hashtags_used as the success
\* branch writes them.
C5_PublishFailureDegradesSocialFieldsOnly ==
    \A v \in DOMAIN videos :
        PublishingFailed(v) =>
            /\ (job[v].pc \in {"update_prompt", "insert_performance"}
                \/ (job[v].pc = "returned" /\ job[v].exc = "none"))
                   => videos[v].status = "completed"
            /\ videos[v].status = "completed" =>
                  /\ videos[v].instagram_post_id = Null
                  /\ videos[v].posted_at = Null
                  /\ videos[v].video_url = CompletedSuccessFields(job[v]).video_url
                  /\ videos[v].duration = CompletedSuccessFields(job[v]).duration
                  /\ videos[v].caption_text = CompletedSuccessFields(job[v]).caption_text
                  /\ videos[v].hashtags_used = CompletedSuccessFields(job[v]).hashtags_used

\* publish_reel returned a failure and the job wrote status completed.
C5_Witness ==
    \E v \in DOMAIN videos :
        /\ last[v] = Op("set_completed_publish_failed", TRUE)
        /\ job[v].publish_result # Unbound
        /\ ~Get(job[v].publish_result, "success", FALSE)
        /\ videos[v].status = "completed"
        /\ videos[v].caption_text = <<"llm caption">>

CompletedWrites ==
    {"set_completed_success", "set_completed_publish_failed",
     "set_completed_container_failed", "set_completed_exception"}

\* Whether operation next may come right after operation prev in one job.
OrderOk(prev, next) ==
    CASE next.op = "set_processing" -> prev = NoOp
      [] next.op = "render" -> prev = Op("set_processing", TRUE)
      [] next.op = "caption" -> prev = Op("render", TRUE)
      [] next.op = "create_container" -> prev = Op("caption", TRUE)
      [] next.op = "get_status" ->
             prev \in {Op("create_container", TRUE), Op("sleep", TRUE)}
      [] next.op = "sleep" -> prev.op = "get_status" /\ prev.ok
      [] next.op = "publish" ->
             prev.op \in {"create_container", "get_status", "sleep"} /\ prev.ok
      [] next.op \in {"set_completed_success", "set_completed_publish_failed"} ->
             prev = Op("publish", TRUE)
      [] next.op = "set_completed_container_failed" -> prev = Op("create_container", TRUE)
      [] next.op = "set_completed_exception" ->
             \/ prev.op = "get_status" /\ prev.ok
             \/ ~prev.ok /\ prev.op \in CompletedWrites \ {"set_completed_exception"}
      [] next.op = "update_prompt" -> prev.ok /\ prev.op \in CompletedWrites
      [] next.op = "insert_performance" -> prev = Op("update_prompt", TRUE)
      [] next.op = "set_failed" -> ~prev.ok
      [] OTHER -> FALSE

\* C6: the awaited operations of one job come in the fixed order: processing
\* write, render, caption, create_media_container, the get_container_status
\* queries, publish_reel, completed write, prompt update, performance insert;
\* each starts only when the one before it has returned.
C6_FixedStepOrder ==
    [][\A v \in VideoIds :
          (job[v].pc # "none" /\ job'[v] # job[v]) => OrderOk(last[v], last'[v])]_vars

\* A job went through the whole sequence against the live publisher.
C6_Witness ==
    \E v \in VideoIds :
        /\ job[v].pc = "returned"
        /\ last[v] = Op("insert_performance", TRUE)
        /\ job[v].container_id = LiveContainerId
        /\ Get(job[v].publish_result, "success", FALSE)

CompletedKeys ==
    {"video_url", "duration", "completed_at", "caption_text", "hashtags_used",
     "instagram_post_id", "posted_at", "platform"}

\* C7: a video document with status completed has all of video_url, duration,
\* completed_at, caption_text, hashtags_used, instagram_post_id, posted_at and
\* platform, as the job computed them; this holds right after each of the four
\* completed writes.
C7_CompletedRecordIsFull ==
    \A v \in DOMAIN videos :
        /\ (last[v].ok /\ last[v].op \in CompletedWrites) => videos[v].status = "completed"
        /\ videos[v].status = "completed" =>
              /\ CompletedKeys \subseteq DOMAIN videos[v]
              /\ videos[v].video_url = job[v].video_url
              /\ videos[v].completed_at = job[v].completed_at
              /\ videos[v].completed_at # Null
              /\ videos[v].caption_text = job[v].caption
              /\ videos[v].hashtags_used = job[v].hashtags
              /\ videos[v].platform = "instagram"

\* The handler of the publishing try block wrote status completed.
C7_Witness ==
    \E v \in DOMAIN videos :
        /\ last[v] = Op("set_completed_exception", TRUE)
        /\ job[v].ig_error # "none"
        /\ videos[v].status = "completed"

\* Render has returned and the terminal write has not been made yet.
BetweenRenderAndTerminalWrite ==
    {"caption", "container", "poll", "sleep", "publish", "publish_mock", "completed_success",
     "completed_publish_failed", "completed_container_failed", "completed_exception"}

\* C8 as stated: the render result is in the video document before caption
\* generation starts, and the caption result before publishing starts.
C8_IncrementalPersist ==
    \A v \in DOMAIN videos :
        /\ job[v].pc = "caption" => videos[v].video_url = job[v].video_url
        /\ job[v].pc = "container" =>
              /\ "caption_text" \in DOMAIN videos[v]
              /\ videos[v].caption_text = job[v].caption

\* C8 (amended): between the return of the render step and the terminal write
\* the video document is the inserted one with only its status changed to
\* processing: render and caption results reach the record store with the
\* completed write, not before.
C8_ResultsPersistedOnlyByTerminalWrite ==
    \A v \in DOMAIN videos :
        job[v].pc \in BetweenRenderAndTerminalWrite =>
            videos[v] = [video_doc(v, job[v].prompt) EXCEPT !.status = "processing"]

\* A job about to publish holds a rendered URL and a caption that its
\* document does not have yet.
C8_Witness ==
    \E v \in DOMAIN videos :
        /\ job[v].pc = "publish"
        /\ job[v].video_url \notin {Null, PlaceholderUrl}
        /\ job[v].caption # <<>>
        /\ videos[v].video_url = Null
        /\ "caption_text" \notin DOMAIN videos[v]

\* C9: the step of the outer exception handler changes at most the status of
\* the job's video document, to failed, and nothing else in the record store;
\* after it the job makes no further step.
C9_HandlerWritesStatusOnly ==
    [][\A v \in VideoIds :
          /\ (job[v].pc = "except" /\ job'[v] # job[v]) =>
                /\ videos'[v] \in {videos[v], [videos[v] EXCEPT !.status = "failed"]}
                /\ DOMAIN videos' = DOMAIN videos
                /\ \A w \in DOMAIN videos \ {v} : videos'[w] = videos[w]
                /\ prompts' = prompts
                /\ performance' = performance
                /\ Ended(v)'
          /\ Ended(v) => (job'[v] = job[v] /\ last'[v] = last[v])]_vars

\* The handler ran after the completed write: status is failed and the fields
\* of the completed write are still there.
C9_Witness ==
    \E v \in DOMAIN videos :
        /\ job[v].pc = "returned"
        /\ last[v] = Op("set_failed", TRUE)
        /\ videos[v].status = "failed"
        /\ videos[v].video_url # Null
        /\ "caption_text" \in DOMAIN videos[v]

PerformanceOf(v) == {i \in 1..Len(performance) : performance[i].video_id = v}

\* C10: a job inserts at most one performance document, only after its
\* completed write, with all counters zero; and a video whose job is over with
\* status completed has exactly one performance document.
C10_OnePerformanceRecordPerCompletedVideo ==
    \A v \in VideoIds :
        /\ Cardinality(PerformanceOf(v)) <= 1
        /\ \A i \in PerformanceOf(v) :
              /\ "caption_text" \in DOMAIN videos[v]
              /\ performance[i].views = 0 /\ performance[i].likes = 0
              /\ performance[i].shares = 0 /\ performance[i].comments = 0
              /\ performance[i].watch_time_avg = 0
        /\ (Ended(v) /\ StatusOf(v) = "completed") => Cardinality(PerformanceOf(v)) = 1


\* C11: in live mode, after create_media_container returned an id, a job
\* issues at most max_retries status queries: every query is issued with
\* fewer than max_retries attempts counted; a query that observes FINISHED ends
\* the polling and publish_reel is the next call; any other result, None
\* included, counts one attempt and is followed by the wait; after the wait
\* that follows attempt number max_retries publish_reel is the next call. A
\* job that got its container id under mock mode calls publish_reel without
\* any status query.
C11_PollAtMostMaxRetriesThenPublish ==
    [][\A v \in VideoIds :
          /\ job[v].pc = "poll" => job[v].retry_count < max_retries
          /\ job[v].pc = "sleep" => job[v].retry_count \in 1..max_retries
          /\ (job[v].pc = "container" /\ job'[v].pc = "poll") =>
                (~mock_mode' /\ ~Falsy(job'[v].container_id))
          /\ (job[v].pc = "container" /\ job'[v] # job[v] /\ mock_mode'
                 /\ ~Falsy(job'[v].container_id)) => job'[v].pc = "publish_mock"
          /\ (job[v].pc = "poll" /\ job'[v] # job[v]) =>
                /\ last'[v].op = "get_status"
                /\ last'[v].finished => job'[v].pc = "publish"
                /\ (~last'[v].finished /\ job'[v].ig_error = "none") =>
                      /\ job'[v].pc = "sleep"
                      /\ job'[v].retry_count = job[v].retry_count + 1
                /\ job'[v].pc \in {"publish", "sleep", "completed_exception"}
          /\ (job[v].pc = "sleep" /\ job'[v] # job[v]) =>
                job'[v].pc = IF job[v].retry_count < max_retries THEN "poll" ELSE "publish"
          /\ last'[v].op = "get_status" => last[v].op \in {"create_container", "sleep", "get_status"}
          /\ (last'[v].op = "publish" /\ last[v].op = "create_container") =>
                job[v].container_id = MockContainerId]_vars

\* All max_retries attempts were used without FINISHED and the job went on to
\* publish_reel.
C11_Witness ==
    \E v \in VideoIds :
        /\ last[v] = Op("sleep", TRUE)
        /\ job[v].pc = "publish"
        /\ job[v].container_id = LiveContainerId


LiveContainerCall(v) ==
    job[v].pc = "container" /\ job'[v] # job[v] /\ ~mock_mode

\* C14 as claimed: a live call whose container request fails leaves the
\* singleton in mock mode and returns the mock id of the repeated call, so a
\* live call never returns None.
C14_NullContainerFlipsToMock ==
    [][\A v \in Pair :
          LiveContainerCall(v) =>
              \/ job'[v].container_id = LiveContainerId
              \/ mock_mode' /\ job'[v].container_id = MockContainerId]_vars

\* C14: a live call whose container request fails returns None and changes
\* nothing on the singleton, which stays in live mode; the job goes to the
\* completed write without a post id and without calling publish_reel, and
\* the calls of later jobs are live calls again.
C14_NullContainerKeepsLiveMode ==
    [][\A v \in Pair :
          /\ LiveContainerCall(v) =>
                /\ ~mock_mode'
                /\ business_account_id' = business_account_id
                /\ job'[v].container_id \in ContainerResponses
                /\ Falsy(job'[v].container_id) => job'[v].pc = "completed_container_failed"
          /\ (job[v].pc = "completed_container_failed" /\ job'[v] # job[v]) =>
                /\ job'[v].publish_result = Unbound
                /\ last'[v].ok =>
                      /\ videos'[v].status = "completed"
                      /\ videos'[v].instagram_post_id = Null
                      /\ videos'[v].posted_at = Null]_vars

\* The container request of one job failed, that job is over, and the other
\* job has just got a live container id.
C14_Witness ==
    \E v, w \in Pair :
        /\ v # w
        /\ job[v].pc = "returned"
        /\ last[v].op = "insert_performance"
        /\ Falsy(job[v].container_id)
        /\ job[v].publish_result = Unbound
        /\ videos[v].instagram_post_id = Null
        /\ ~mock_mode
        /\ last[w].op = "create_container"
        /\ job[w].container_id = LiveContainerId


\* C15: a call of create_media_container, get_container_status or
\* publish_reel that began with mock_mode true made no request; the first
\* returned an id that is not None, the second status_code FINISHED, the third
\* success true with a post id and a posted_at that are not None.
C15_MockCallsSucceedWithoutRequests ==
    (call.fn \in {"create_media_container", "get_container_status", "publish_reel"}
        /\ call.mock_mode) =>
        /\ call.requests = <<>>
        /\ call.result # Raises
        /\ call.fn = "create_media_container" => ~Falsy(call.result.id)
        /\ call.fn = "get_container_status" =>
              Get(call.result, "status_code", Null) = "FINISHED"
        /\ call.fn = "publish_reel" =>
              /\ Get(call.result, "success", FALSE)
              /\ ~Falsy(Get(call.result, "instagram_post_id", Null))
              /\ ~Falsy(Get(call.result, "posted_at", Null))

\* get_container_status was called on a singleton in mock mode that has an
\* access token.
C15_Witness ==
    /\ call.fn = "get_container_status"
    /\ call.mock_mode
    /\ access_token # ""

\* C16: the singleton as constructed, before any call, is in mock mode
\* exactly when the access token or the business account id is empty.
C16_MockModeAtConstruction ==
    call = NoCall => (mock_mode <=> (access_token = "" \/ business_account_id = ""))

\* Constructed with an access token and without an account id: mock mode.
C16_Witness ==
    /\ call = NoCall
    /\ access_token # ""
    /\ business_account_id = ""
    /\ mock_mode

\* No request occurs twice in the sequence.
NoRepeat(requests) ==
    \A i, j \in 1..Len(requests) : requests[i] = requests[j] => i = j

\* C20: a call of a service component during which a request to its external
\* service (LLM, render API, social API) failed returned to its caller: the
\* generators, the renderer and publish_reel a result with success false, the
\* other publisher operations None (create_media_container a mock id when it
\* was the resolution that failed); and the call made no request twice.
C20_ExternalFailuresAreReturned ==
    (call.fn # "none" /\ call.failed) =>
        /\ call.result # Raises
        /\ NoRepeat(call.requests)
        /\ call.fn \in {"generate_video_prompt", "generate_caption_and_hashtags",
                        "generate_video_with_fal", "publish_reel"} =>
              /\ "success" \in DOMAIN call.result
              /\ ~call.result.success
        /\ call.fn = "generate_video_prompt" => "prompt" \in DOMAIN call.result
        /\ call.fn = "generate_caption_and_hashtags" =>
              {"caption", "hashtags"} \subseteq DOMAIN call.result
        /\ call.fn = "create_media_container" =>
              call.result.id \in {Null, MockContainerId}
        /\ call.fn = "fetch_business_account_id" => call.result.id = Null
        /\ call.fn \in {"get_container_status", "get_reel_insights"} =>
              call.result = NoneResult

\* The render API failed and generate_video_with_fal returned success false.
C20_Witness ==
    /\ call.fn = "generate_video_with_fal"
    /\ call.failed
    /\ Get(call.result, "success", TRUE) = FALSE


\* C17: a request for a video inserts exactly one video document, with status
\* queued and video_url None, and enqueues exactly one job, the one of that
\* document; and a job is under way only for a document that has been
\* inserted, so its processing write never comes before the insert.
C17_RequestInsertsOneVideoAndEnqueuesItsJob ==
    [][\A v \in VideoIds :
          /\ (v \notin DOMAIN videos /\ v \in DOMAIN videos') =>
                /\ DOMAIN videos' = DOMAIN videos \cup {v}
                /\ videos'[v].status = "queued"
                /\ videos'[v].video_url = Null
                /\ job[v].pc = "none" /\ job'[v].pc = "start"
                /\ \A w \in VideoIds \ {v} : job'[w] = job[w]
          /\ job[v].pc # "none" => v \in DOMAIN videos
          /\ (job[v].pc = "none" /\ job'[v].pc # "none") =>
                (job'[v].pc = "start" /\ v \in DOMAIN videos')]_vars


\* The fields of job v's completed write are values of job v's own frame.
OwnValues(v) ==
    "caption_text" \in DOMAIN videos[v] =>
        /\ videos[v].video_url = job[v].video_url
        /\ videos[v].completed_at = job[v].completed_at
        /\ videos[v].caption_text = job[v].caption
        /\ videos[v].hashtags_used = job[v].hashtags
        /\ videos[v].instagram_post_id \in
              {Null, Get(job[v].publish_result, "instagram_post_id", Null)}
        /\ videos[v].posted_at \in {Null, Get(job[v].publish_result, "posted_at", Null)}
        /\ videos[v].prompt_id = job[v].prompt.id

\* C18: with two jobs running concurrently, a step of one job changes no
\* video document but the job's own and adds or removes none, and the fields
\* a job's document got from its completed write are the values of that job's
\* own frame, whatever the other job does in between.
C18_JobsWriteOnlyTheirOwnVideo ==
    [][\A v \in Pair :
          /\ (job[v].pc # "none" /\ job'[v] # job[v]) =>
                /\ DOMAIN videos' = DOMAIN videos
                /\ \A w \in DOMAIN videos \ {v} : videos'[w] = videos[w]
          /\ v \in DOMAIN videos' => OwnValues(v)']_vars

\* Both jobs are over with status completed and their documents differ in
\* the video URL and in the caption.
C18_Witness ==
    /\ \A v \in Pair : job[v].pc = "returned" /\ StatusOf(v) = "completed"
    /\ videos[1].video_url # videos[2].video_url
    /\ videos[1].caption_text # videos[2].caption_text
    /\ videos[1].instagram_post_id # videos[2].instagram_post_id

\* C19: while one job is in its poll loop, at a status query or at the wait
\* between two queries, every other job that is under way can take its next
\* step.
C19_PollDoesNotBlockOtherJobs ==
    \A v, w \in Pair :
        (v # w /\ job[v].pc \in {"poll", "sleep"}
               /\ job[w].pc \notin {"none", "returned", "raised"})
            => ENABLED process_video_generation(w)

\* One job is at the wait after its second failed query while the other, which
\* has counted one attempt, is at a status query.
C19_Witness ==
    \E v, w \in Pair :
        /\ v # w
        /\ job[v].pc = "sleep" /\ job[v].retry_count = 2
        /\ job[w].pc = "poll" /\ job[w].retry_count = 1


\* The keys the prompt schema requires.
PromptKeys == {"hook", "scenes", "visual_style", "audio", "metadata"}

\* C21: whatever the LLM call yields (an exception, text that is not JSON, a
\* JSON object of any shape, a valid prompt), the result of
\* generate_video_prompt has a prompt with the keys hook, scenes,
\* visual_style, audio and metadata, with success true as with success false.
C21_PromptResultHasRequiredKeys ==
    call.fn = "generate_video_prompt" =>
        /\ {"success", "prompt"} \subseteq DOMAIN call.result
        /\ PromptKeys \subseteq DOMAIN call.result.prompt

\* niche.replace(' ', '')
WithoutSpaces(text) == SelectSeq(text, LAMBDA c : c # " ")

\* C22: whatever the LLM call yields, the result of
\* generate_caption_and_hashtags has the keys caption and hashtags, hashtags
\* is a list and each of its elements starts with '#'. With success true a
\* hashtags value that was no list has become the empty list, and each tag of
\* a list is the response's tag, with a '#' put in front when it had none. With
\* success false (the call failed or the response was unusable) the caption
\* is the default one naming the niche and the hashtags are the 5 default
\* tags, the first made of the niche without its spaces.
C22_CaptionResultIsNormalized ==
    call.fn = "generate_caption_and_hashtags" =>
        LET r == call.result
            given == call.response.hashtags
        IN /\ {"success", "caption", "hashtags"} \subseteq DOMAIN r
           /\ DOMAIN r.hashtags = 1..Len(r.hashtags)
           /\ \A i \in 1..Len(r.hashtags) : StartsWithHash(r.hashtags[i])
           /\ call.failed => ~r.success
           /\ r.success =>
                 /\ r.caption = call.response.caption.chars
                 /\ ~given.list => r.hashtags = <<>>
                 /\ given.list =>
                       /\ Len(r.hashtags) = Len(given.items)
                       /\ \A i \in 1..Len(given.items) :
                             r.hashtags[i] \in {given.items[i].chars,
                                                <<"#">> \o given.items[i].chars}
           /\ ~r.success =>
                 /\ \E i, j \in 1..Len(r.caption) : SubSeq(r.caption, i, j) = call.niche
                 /\ Len(r.hashtags) = 5
                 /\ r.hashtags[1] = <<"#">> \o WithoutSpaces(call.niche)
                 /\ \A i, j \in 1..5 : r.hashtags[i] = r.hashtags[j] => i = j

\* The LLM answered with one prefixed and one bare tag: the result has both
\* with their '#'.
C22_Witness ==
    /\ call.fn = "generate_caption_and_hashtags"
    /\ call.result.success
    /\ call.response.hashtags.items = <<JsonStr(<<"#", "a">>), JsonStr(<<"b">>)>>
    /\ call.result.hashtags = << <<"#", "a">>, <<"#", "b">> >>

\* Job v ran to its end against the mock publisher and nothing raised.
RanAgainstMock(v) ==
    /\ job[v].pc = "returned"
    /\ job[v].exc = "none" /\ job[v].ig_error = "none"
    /\ job[v].container_id = MockContainerId
    /\ job[v].publish_result = publish_reel_mock

\* C23: after a job that ran against the mock publisher, with the caption
\* call succeeding or falling back, the video document has status completed,
\* a duration that is not null, an instagram_post_id of the mock_post_ kind
\* and between 5 and 10 hashtags_used, each starting with '#'.
C23_MockRunRecord ==
    \A v \in VideoIds :
        RanAgainstMock(v) =>
            /\ videos[v].status = "completed"
            /\ videos[v].duration \in Nat
            /\ videos[v].instagram_post_id = MockPostId
            /\ Len(videos[v].hashtags_used) \in 5..10
            /\ \A i \in 1..Len(videos[v].hashtags_used) :
                  StartsWithHash(videos[v].hashtags_used[i])

\* C24: the clip duration submitted to the render API depends on the target
\* length alone: it is 5 for every length from 0 to 30 and 10 for every
\* length above 30, and nothing else is ever submitted.
C24_ClipDurationQuantized ==
    (call.fn = "generate_video_with_fal" /\ call.requests # <<>>) =>
        /\ call.submitted.duration \in {5, 10}
        /\ call.video_length \in 0..30 => call.submitted.duration = 5
        /\ call.video_length > 30 => call.submitted.duration = 10

\* A job of duration 5 was submitted for the target length 30.
C24_Witness ==
    /\ call.fn = "generate_video_with_fal"
    /\ call.requests # <<>>
    /\ call.video_length = 30
    /\ call.submitted.duration = 5

AllPrefixed(tags) == \A i \in 1..Len(tags) : StartsWithHash(tags[i])

\* C25: hashtag normalization is idempotent, in the caption generator and in
\* the caption formatting of create_media_container: the list either of them
\* produced is left as it is by a further application of either, and a list
\* whose tags all start with '#' comes out as it went in.
C25_NormalizationIdempotent ==
    /\ (call.fn = "generate_caption_and_hashtags" /\ call.result.success) =>
          /\ NormalizeTags(call.result.hashtags) = call.result.hashtags
          /\ FormatTags(call.result.hashtags) = call.result.hashtags
          /\ LET given == [i \in 1..Len(AsList(call.response.hashtags)) |->
                               AsList(call.response.hashtags)[i].chars]
             IN AllPrefixed(given) => call.result.hashtags = given
    /\ (call.fn = "create_media_container" /\ call.caption # <<>>) =>
          /\ FormatTags(call.tags) = call.tags
          /\ NormalizeTags(call.tags) = call.tags
          /\ AllPrefixed(call.hashtags) => call.tags = call.hashtags
          /\ call.caption = FormatCaption(<<"llm caption">>, call.tags)

\* A container request was made with a bare tag and a tag of two '#'.
C25_Witness ==
    /\ call.fn = "create_media_container"
    /\ call.hashtags = << <<"b">>, <<"#", "#", "a">> >>
    /\ call.tags = << <<"#", "b">>, <<"#", "#", "a">> >>

PublishPcs == {"publish", "publish_mock"}

\* C26: a job calls publish_reel at most once, and only with the container
\* id that create_media_container returned to it, which is not null: the call
\* is under way only while the job holds such an id and no publish result;
\* its return is the only step that sets the publish result, and the job is
\* then past the call for good; a job whose container creation returned null
\* never holds a publish result.
C26_PublishAtMostOnce ==
    [][\A v \in VideoIds :
          /\ job[v].pc \in PublishPcs =>
                /\ job[v].container_id \in {MockContainerId, LiveContainerId}
                /\ job[v].publish_result = Unbound
                /\ last[v].op \in {"create_container", "get_status", "sleep"}
          /\ job'[v].publish_result # job[v].publish_result =>
                /\ job[v].pc \in PublishPcs
                /\ job[v].publish_result = Unbound
                /\ last'[v] = Op("publish", TRUE)
          /\ (job[v].pc \in PublishPcs /\ job'[v] # job[v]) =>
                /\ job'[v].pc \in {"completed_success", "completed_publish_failed"}
                /\ job'[v].publish_result # Unbound
                /\ job'[v].container_id = job[v].container_id
          /\ (job[v].pc \notin PublishPcs /\ job'[v].pc \in PublishPcs) =>
                job[v].pc \in {"container", "poll", "sleep"}
          /\ Falsy(job[v].container_id) => job[v].publish_result = Unbound]_vars

\* publish_reel returned for a live container, after a wait of the poll loop
\* or a status query.
C26_Witness ==
    \E v \in VideoIds :
        /\ last[v] = Op("publish", TRUE)
        /\ job[v].container_id = LiveContainerId
        /\ job[v].publish_result # Unbound
        /\ job[v].pc = "completed_publish_failed"

C28_PublishedPostIdIsPersisted ==
    \A v \in DOMAIN videos :
        (Get(job[v].publish_result, "success", FALSE) /\ videos[v].status = "completed") =>
            /\ videos[v].instagram_post_id = job[v].publish_result.instagram_post_id
            /\ videos[v].posted_at # Null

\* C29: in every state the singleton reaches, after construction and any
\* jobs and calls of the fetch-account-id route, live mode implies a
\* business account id that is not empty; so a job waits in the live branch
\* of publish_reel, or in the poll loop, only with such an id.
C29_LiveModeHasAccountId ==
    /\ ~mock_mode => ~Falsy(business_account_id)
    /\ \A v \in VideoIds :
          job[v].pc \in {"poll", "sleep", "publish"} => ~Falsy(business_account_id)

\* A job waits in the live branch of publish_reel.
C29_Witness ==
    \E v \in VideoIds :
        /\ job[v].pc = "publish"
        /\ last[v].op = "get_status"
        /\ ~mock_mode
        /\ business_account_id = "acct"

\* C30: a video document with status completed has a video_url that is not
\* null: the URL the renderer returned or the placeholder URL, also when the
\* renderer reported success with a result that has no video URL.
C30_CompletedHasVideoUrl ==
    \A v \in DOMAIN videos :
        videos[v].status = "completed" =>
            /\ videos[v].video_url # Null
            /\ videos[v].video_url \in {"https://fal.media/out.mp4", PlaceholderUrl}

\* C31: a job that set its prompt's status to completed ends with its video's
\* status completed, and a job whose video ends failed leaves the prompt's
\* status at generating. (With one job per prompt, the prompt is completed
\* only by the UpdatePrompt step of that job.)
C31_PromptCompletedOnlyWithCompletedVideo ==
    \A v \in VideoIds :
        Ended(v) =>
            LET status == prompts[job[v].prompt.id].status
            IN /\ status = "completed" => StatusOf(v) = "completed"
               /\ StatusOf(v) = "failed" => status = "generating"

\* C32: with two jobs dispatched for the same prompt and running concurrently,
\* the prompt's status is completed only in states where no video of that
\* prompt is still queued or processing.
C32_PromptCompletedWhenAllJobsDone ==
    \A p \in DOMAIN prompts :
        prompts[p].status = "completed" =>
            \A v \in DOMAIN videos :
                videos[v].prompt_id = p => videos[v].status \notin {"queued", "processing"}

\* The duration the completed document of a job must carry, given what the
\* render API returned to the job and the prompt's video_length.
ExpectedDuration(result, video_length) ==
    IF result = RenderError
    THEN video_length
    ELSE IF "duration" \in DOMAIN result
         THEN result.duration
         ELSE IF video_length <= 30 THEN 5 ELSE 10

\* C33: the duration stored with status completed is the duration the
\* renderer reported when the render step succeeded (the quantized 5 or 10
\* when the render result carries no duration) and the prompt's video_length
\* when the render step failed, whichever of the four completed writes
\* stored it.
C33_CompletedDuration ==
    \A v \in VideoIds :
        StatusOf(v) = "completed" =>
            LET video_length == Get(job[v].prompt, "video_length", 30)
            IN /\ \A result \in FalResults :
                      job[v].video_result = generate_video_with_fal(result, video_length)
                          => videos[v].duration = ExpectedDuration(result, video_length)
               /\ \E result \in FalResults :
                      job[v].video_result = generate_video_with_fal(result, video_length)
               /\ job[v].video_result.success => videos[v].duration \in {5, 10}
               /\ ~job[v].video_result.success => videos[v].duration = video_length

\* The handler of the publishing try block stored the quantized duration of a
\* render result that had a URL and no duration, for a prompt of length 20.
C33_Witness ==
    \E v \in VideoIds :
        /\ last[v] = Op("set_completed_exception", TRUE)
        /\ StatusOf(v) = "completed"
        /\ job[v].prompt.video_length = 20
        /\ job[v].video_result.success
        /\ videos[v].video_url = "https://fal.media/out.mp4"
        /\ videos[v].duration = 5

\* The pieces of a text, the number of times a piece occurs in it and the
\* place of its first occurrence.
TextPieces(text) == { text[k] : k \in 1..Len(text) }
PieceCount(text, piece) == Cardinality({ k \in 1..Len(text) : text[k] = piece })
PiecePos(text, piece) == CHOOSE k \in 1..Len(text) : text[k] = piece

\* A piece of the text that follows the label it must carry.
Labelled(text, piece, label) ==
    /\ PiecePos(text, piece) > 1
    /\ text[PiecePos(text, piece) - 1] = label

\* C34: the render prompt text is made, in this order, of the hook
\* description, the visual descriptions of the first 3 scenes in scene order,
\* the cinematography line and the mood line, joined with ". ": each
\* non-empty one of these occurs once, nothing else occurs (no fourth scene,
\* no more than 3 scenes), a missing or empty part leaves no empty segment,
\* and the parts keep their relative order whatever the number of scenes.
C34_RenderPromptText ==
    call.fn = "prompt_text" =>
        LET text == call.prompt_text
            prompt_data == Get(call.prompt, "generated_prompt", <<>>)
            scenes == Get(prompt_data, "scenes", <<>>)
            description(i) ==
                IF i <= Len(scenes) THEN Get(scenes[i], "visual_description", "") ELSE ""
            wanted == << Get(Get(prompt_data, "hook", <<>>), "description", ""),
                         description(1), description(2), description(3),
                         Get(Get(prompt_data, "visual_style", <<>>), "cinematography", ""),
                         Get(Get(prompt_data, "visual_style", <<>>), "mood", "") >>
            present == { i \in 1..6 : wanted[i] # "" }
        IN /\ \A i \in present : PieceCount(text, wanted[i]) = 1
           /\ TextPieces(text) \subseteq
                  {". ", "Opening: ", "Style: ", "Mood: "} \cup { wanted[i] : i \in present }
           /\ \A i \in 4..Len(SceneTexts) : SceneTexts[i] \notin TextPieces(text)
           /\ Cardinality({ k \in 1..Len(text) :
                                \E i \in 1..Len(SceneTexts) : text[k] = SceneTexts[i] }) <= 3
           /\ \A i, j \in present :
                  i < j => PiecePos(text, wanted[i]) < PiecePos(text, wanted[j])
           /\ PieceCount(text, "Opening: ") = IF 1 \in present THEN 1 ELSE 0
           /\ PieceCount(text, "Style: ") = IF 5 \in present THEN 1 ELSE 0
           /\ PieceCount(text, "Mood: ") = IF 6 \in present THEN 1 ELSE 0
           /\ 1 \in present => Labelled(text, wanted[1], "Opening: ")
           /\ 5 \in present => Labelled(text, wanted[5], "Style: ")
           /\ 6 \in present => Labelled(text, wanted[6], "Mood: ")
           /\ PieceCount(text, ". ") =
                  IF present = {} THEN 0 ELSE Cardinality(present) - 1
           /\ text # <<>> => text[1] # ". " /\ text[Len(text)] # ". "
           /\ \A k \in 1..(Len(text) - 1) :
                  /\ ~(text[k] = ". " /\ text[k + 1] = ". ")
                  /\ text[k] \in {"Opening: ", "Style: ", "Mood: "} => text[k + 1] # ". "

\* The text of a prompt with four scenes, the second without a description:
\* the hook, scenes one and three, the style and the mood, and no scene four.
C34_Witness ==
    /\ call.fn = "prompt_text"
    /\ LET scenes == Get(Get(call.prompt, "generated_prompt", <<>>), "scenes", <<>>)
       IN /\ Len(scenes) = 4
          /\ scenes[4] = [scene_number |-> 4, visual_description |-> "scene four"]
          /\ scenes[2] = [scene_number |-> 2]
    /\ call.prompt_text =
           << "Opening: ", "hook text", ". ", "scene one", ". ", "scene three", ". ",
              "Style: ", "cine text", ". ", "Mood: ", "mood text" >>

\* C35: a POST /videos/generate request whose prompt id no prompt has, or
\* whose prompt belongs to another user, is answered not-found and changes
\* nothing: no video is inserted, no prompt's status is modified and no job
\* is enqueued; and not-found is the answer of those requests only.
C35_NotFoundLeavesStateUnchanged ==
    [][LET found == /\ call'.prompt_id \in DOMAIN prompts
                    /\ prompts[call'.prompt_id].user_id = call'.user
       IN /\ call'.response = NotFound <=> ~found
          /\ ~found => /\ videos' = videos
                       /\ prompts' = prompts
                       /\ job' = job
                       /\ performance' = performance
                       /\ last' = last]_vars

\* User u2 asked for the prompt of user u1 after u1's own request: the answer
\* was not-found, and the one video, its job and the prompt are as u1's
\* request left them.
C35_Witness ==
    /\ call.fn = "generate_video"
    /\ call.user = "u2"
    /\ call.prompt_id = "p1"
    /\ call.response = NotFound
    /\ DOMAIN videos = {1}
    /\ videos[1].user_id = "u1"
    /\ job[1].pc = "start"
    /\ job[2] = NoJob
    /\ prompts["p1"].status = "generating"

====
